---- MODULE Spec2Model ----
(***************************************************************************)
(* A model of hello_pygame: the MyGame session (my_game.py) with its event *)
(* loop, the expiry of click markers, the render pass, and the exit code   *)
(* of main() (main.py).                                                    *)
(*                                                                         *)
(* Time is counted in whole clock units; time.time() is the wall clock, so *)
(* it may advance by any amount between two steps and may also be set      *)
(* back.  pygame.event.get() returns whatever the user produced since the  *)
(* last call: the size of the batch is an input of the poll and each of    *)
(* its events an input of the loop pass that handles it (the for loop      *)
(* never looks ahead in the batch).                                        *)
(***************************************************************************)
EXTENDS Integers, Sequences, FiniteSets, TLC

\* ------------------------------------------------------------------ bounds
\* The clock takes the values 0..MaxTime.
MaxTime == 2
\* At most MaxBatch events are returned by one pygame.event.get().
MaxBatch == 2
\* At most MaxClicks left-button presses are delivered in one run.
MaxClicks == 2

\* ------------------------------------------------------------- the inputs
\* circle_lifetime values the session is constructed with (non-positive
\* values are accepted by the constructor: nothing validates them).
Lifetimes == {-1, 0, 1, 2}

\* Positions a left click may carry.
Positions == {<<10, 10>>, <<20, 20>>}

\* The position carried by the events whose position is never read.
Origin == <<0, 0>>

Quit == [type |-> "QUIT", button |-> 0, pos |-> Origin]

Down(b, p) == [type |-> "MOUSEBUTTONDOWN", button |-> b, pos |-> p]

Up(b, p) == [type |-> "MOUSEBUTTONUP", button |-> b, pos |-> p]

KeyDown == [type |-> "KEYDOWN", button |-> 0, pos |-> Origin]

\* The events pygame.event.get() may deliver.
Events ==
    {Quit, KeyDown, Down(2, Origin), Down(3, Origin), Up(1, Origin)}
        \cup {Down(1, p) : p \in Positions}

\* What an event is, whatever the program makes of it.
IsQuitEvent(e) == e.type = "QUIT"

IsLeftPress(e) == e.type = "MOUSEBUTTONDOWN" /\ e.button = 1

IsRightPress(e) == e.type = "MOUSEBUTTONDOWN" /\ e.button = 3

\* Dispatch with the reset bound to button 2 instead of button 3.
DispatchResetOnButton2(e) ==
    IF e.type = "QUIT" THEN "quit"
    ELSE IF e.type = "MOUSEBUTTONDOWN"
         THEN IF e.button = 1 THEN "left"
              ELSE IF e.button = 2 THEN "right"
              ELSE "ignored"
         ELSE "ignored"

\* Dispatch testing the button without testing the event type first.
DispatchAnyButtonEvent(e) ==
    IF e.type = "QUIT" THEN "quit"
    ELSE IF e.button = 1 THEN "left"
    ELSE IF e.button = 3 THEN "right"
    ELSE "ignored"

\* The branch of the if/elif chain of run() that event e takes.
Dispatch(e) ==
    IF e.type = "QUIT" THEN "quit"
    ELSE IF e.type = "MOUSEBUTTONDOWN"
         THEN IF e.button = 1 THEN "left"
              ELSE IF e.button = 3 THEN "right"
              ELSE "ignored"
         ELSE "ignored"

\* ------------------------------------------------------------------ state
VARIABLES
    clicks,            \* self.clicks: list of (x, y, timestamp)
    click_count,       \* self.click_count
    running,           \* self.running
    circle_lifetime,   \* self.circle_lifetime
    pc,                \* position of run(): "while", "for", "draw", "tick", "done", "raised"
    pending,           \* events of the current batch the for loop has not handled yet
    now,               \* what time.time() returns
    current_time,      \* the clock value _update_circles read, until its frame is drawn (else 0)
    screen,            \* the frame last presented by pygame.display.flip()
    exit_code,         \* <<c>> once main() has returned c, <<>> before
    raised,            \* the exception that left app(), "none" if none did
    last,              \* the last step the program took
    event,             \* the event the for loop body handled last, <<>> outside the loop
    lefts,             \* history: left-button presses handled so far
    right_seen,        \* history: a right-button press has been handled
    quit_seen,         \* history: a quit event has been handled
    draws_after_quit,  \* history: render passes since the quit was handled
    polls_after_quit   \* history: event polls since the quit was handled

vars ==
    <<clicks, click_count, running, circle_lifetime, pc, pending, now,
      current_time, screen, exit_code, raised, last, event, lefts, right_seen,
      quit_seen, draws_after_quit, polls_after_quit>>

\* The variables of the session object and of run().
game == <<clicks, click_count, running, circle_lifetime, pc, pending,
          current_time, screen>>

history == <<event, lefts, right_seen, quit_seen, draws_after_quit, polls_after_quit>>

mainvars == <<exit_code, raised>>

\* ------------------------------------------------------- pure operations
\* Alive with the boundary kept: a marker aged exactly life survives.
AliveInclusive(t, ct, life) == ct - t <= life

\* Alive expiring one clock unit early.
AliveEarly(t, ct, life) == ct - t + 1 < life

\* The filter condition of _update_circles for a marker stamped t.
Alive(t, ct, life) == ct - t < life

\* Retained that never tests the newest marker.
RetainedExceptNewest(s, ct, life) ==
    IF s = <<>> THEN <<>>
    ELSE SelectSeq(SubSeq(s, 1, Len(s) - 1), LAMBDA m : ct - m[3] < life)
            \o <<s[Len(s)]>>

\* Retained removing from the list it iterates over: the marker that follows
\* a removed one is skipped.
RECURSIVE RetainedSkipping(_, _, _)
RetainedSkipping(s, ct, life) ==
    IF s = <<>> THEN <<>>
    ELSE IF ct - Head(s)[3] < life
         THEN <<Head(s)>> \o RetainedSkipping(Tail(s), ct, life)
         ELSE IF Tail(s) = <<>> THEN <<>>
              ELSE <<Head(Tail(s))>> \o RetainedSkipping(Tail(Tail(s)), ct, life)

\* Retained building its result by inserting each kept marker at the front.
RECURSIVE RetainedReversed(_, _, _)
RetainedReversed(s, ct, life) ==
    IF s = <<>> THEN <<>>
    ELSE IF ct - Head(s)[3] < life
         THEN RetainedReversed(Tail(s), ct, life) \o <<Head(s)>>
         ELSE RetainedReversed(Tail(s), ct, life)

\* The list comprehension of _update_circles: the markers kept, in order.
RECURSIVE Retained(_, _, _)
Retained(s, ct, life) ==
    IF s = <<>> THEN <<>>
    ELSE IF Alive(Head(s)[3], ct, life)
         THEN <<Head(s)>> \o Retained(Tail(s), ct, life)
         ELSE Retained(Tail(s), ct, life)

\* The marker a left click at p records at time t.
Marker(p, t) == <<p[1], p[2], t>>

\* The centres of the circles _draw paints, in painting order.
RECURSIVE Circles(_)
Circles(s) ==
    IF s = <<>> THEN <<>>
    ELSE <<(<<Head(s)[1], Head(s)[2]>>)>> \o Circles(Tail(s))

\* Frame writing the number of circles on display as the count.
FrameCountsCircles(s, n) == [circles |-> Circles(s), text |-> <<"Clicks: ", Len(s)>>]

\* The frame _draw presents: the circles and the text f"Clicks: {n}".
Frame(s, n) == [circles |-> Circles(s), text |-> <<"Clicks: ", n>>]

\* ------------------------------------------------------------------- Init
\* The state after MyGame.__init__, as main() enters app().
Init ==
    /\ clicks = <<>>
    /\ click_count = 0
    /\ running = TRUE
    /\ circle_lifetime \in Lifetimes
    /\ pc = "while"
    /\ pending = 0
    /\ now \in 0..MaxTime
    /\ current_time = 0
    /\ screen = [circles |-> <<>>, text |-> <<>>]
    /\ exit_code = <<>>
    /\ raised = "none"
    /\ last = "init"
    /\ event = <<>>
    /\ lefts = 0
    /\ right_seen = FALSE
    /\ quit_seen = FALSE
    /\ draws_after_quit = 0
    /\ polls_after_quit = 0

\* ------------------------------------------------------------ the run loop
\* A loop test that never fails.
LoopForever == TRUE

\* The loop test of run().
LoopCondition == running

\* while self.running: ... pygame.event.get() returns a batch of n events.
\* The for loop reads them one at a time and never looks ahead, so the
\* events themselves are drawn as the loop reaches them.
EventGet ==
    /\ pc = "while"
    /\ LoopCondition
    /\ \E n \in 0..MaxBatch : pending' = n
    /\ pc' = "for"
    /\ last' = "get"
    /\ polls_after_quit' = IF quit_seen THEN polls_after_quit + 1 ELSE polls_after_quit
    /\ UNCHANGED <<clicks, click_count, running, circle_lifetime, now, current_time,
                   screen, mainvars, event, lefts, right_seen, quit_seen,
                   draws_after_quit>>

\* The loop test fails: pygame.quit() and run() returns.
LoopExit ==
    /\ pc = "while"
    /\ ~LoopCondition
    /\ pc' = "done"
    /\ last' = "exit"
    /\ UNCHANGED <<clicks, click_count, running, circle_lifetime, pending, now,
                   current_time, screen, mainvars, history>>

\* The for loop hands the next event of the batch, e, to the branch of the
\* if/elif chain it takes.  The history records what e was.
NextEvent(e, branch) ==
    /\ pc = "for"
    /\ pending > 0
    /\ e \in Events
    /\ IsLeftPress(e) => lefts < MaxClicks
    /\ Dispatch(e) = branch
    /\ pending' = pending - 1
    /\ event' = e
    /\ last' = "handle"
    /\ lefts' = IF IsLeftPress(e) THEN lefts + 1 ELSE lefts
    /\ right_seen' = (right_seen \/ IsRightPress(e))
    /\ quit_seen' = (quit_seen \/ IsQuitEvent(e))
    /\ UNCHANGED <<circle_lifetime, now, current_time, screen, mainvars,
                   draws_after_quit, polls_after_quit>>

\* HandleQuit leaving run() at once, without finishing the iteration.
HandleQuitReturns ==
    /\ \E e \in Events : NextEvent(e, "quit")
    /\ running' = FALSE
    /\ pc' = "done"
    /\ UNCHANGED <<clicks, click_count>>

\* if event.type == pygame.QUIT: self.running = False
HandleQuit ==
    /\ \E e \in Events : NextEvent(e, "quit")
    /\ running' = FALSE
    /\ UNCHANGED <<clicks, click_count, pc>>

\* The count taken from the markers on display instead of incremented.
CountFromMarkers(count, marks) == Len(marks)

\* The count left as it was: the increment is missing.
CountNotIncremented(count, marks) == count

\* self.click_count += 1
CountAfterLeftClick(count, marks) == count + 1

\* HandleLeftClick putting the new marker in front of the others.
HandleLeftClickPrepends ==
    /\ \E e \in Events :
        /\ NextEvent(e, "left")
        /\ clicks' = <<Marker(e.pos, now)>> \o clicks
    /\ click_count' = CountAfterLeftClick(click_count, clicks')
    /\ UNCHANGED <<running, pc>>

\* elif MOUSEBUTTONDOWN, button == 1: record the click
HandleLeftClick ==
    /\ \E e \in Events :
        /\ NextEvent(e, "left")
        /\ clicks' = Append(clicks, Marker(e.pos, now))
    /\ click_count' = CountAfterLeftClick(click_count, clicks')
    /\ UNCHANGED <<running, pc>>

\* HandleRightClick resetting the whole session state, running included.
HandleRightClickRestarts ==
    /\ \E e \in Events : NextEvent(e, "right")
    /\ clicks' = <<>>
    /\ click_count' = 0
    /\ running' = TRUE
    /\ UNCHANGED pc

\* HandleRightClick taking back the last click instead of resetting.
HandleRightClickUndoes ==
    /\ \E e \in Events : NextEvent(e, "right")
    /\ clicks' = SubSeq(clicks, 1, Len(clicks) - 1)
    /\ click_count' = IF click_count > 0 THEN click_count - 1 ELSE 0
    /\ UNCHANGED <<running, pc>>

\* HandleRightClick without self.clicks.clear().
HandleRightClickCountOnly ==
    /\ \E e \in Events : NextEvent(e, "right")
    /\ click_count' = 0
    /\ UNCHANGED <<clicks, running, pc>>

\* elif MOUSEBUTTONDOWN, button == 3: reset the game state
HandleRightClick ==
    /\ \E e \in Events : NextEvent(e, "right")
    /\ clicks' = <<>>
    /\ click_count' = 0
    /\ UNCHANGED <<running, pc>>

\* every other event falls through the if/elif chain
HandleIgnored ==
    /\ \E e \in Events : NextEvent(e, "ignored")
    /\ UNCHANGED <<clicks, click_count, running, pc>>

\* UpdateCircles setting the count to the number of markers it kept.
UpdateCirclesRecounts ==
    /\ pc = "for"
    /\ pending = 0
    /\ current_time' = now
    /\ clicks' = Retained(clicks, now, circle_lifetime)
    /\ click_count' = Len(clicks')
    /\ pc' = "draw"
    /\ event' = <<>>
    /\ last' = "update"
    /\ UNCHANGED <<running, circle_lifetime, pending, now, screen,
                   mainvars, lefts, right_seen, quit_seen,
                   draws_after_quit, polls_after_quit>>

\* UpdateCircles treating a lifetime of 0 or less as "never expires".
UpdateCirclesSkipsNonPositive ==
    /\ pc = "for"
    /\ pending = 0
    /\ current_time' = now
    /\ clicks' = IF circle_lifetime <= 0 THEN clicks
                  ELSE Retained(clicks, now, circle_lifetime)
    /\ pc' = "draw"
    /\ event' = <<>>
    /\ last' = "update"
    /\ UNCHANGED <<click_count, running, circle_lifetime, pending, now, screen,
                   mainvars, lefts, right_seen, quit_seen,
                   draws_after_quit, polls_after_quit>>

\* self._update_circles(), once the for loop has run out of events
UpdateCircles ==
    /\ pc = "for"
    /\ pending = 0
    /\ current_time' = now
    /\ clicks' = Retained(clicks, now, circle_lifetime)
    /\ pc' = "draw"
    /\ event' = <<>>
    /\ last' = "update"
    /\ UNCHANGED <<click_count, running, circle_lifetime, pending, now, screen,
                   mainvars, lefts, right_seen, quit_seen,
                   draws_after_quit, polls_after_quit>>

\* self._draw(): fill, one circle per marker, the count text, flip.  The
\* clock value of the expiration step is not needed past this point.
Draw ==
    /\ pc = "draw"
    /\ screen' = Frame(clicks, click_count)
    /\ draws_after_quit' = IF quit_seen THEN draws_after_quit + 1 ELSE draws_after_quit
    /\ pc' = "tick"
    /\ current_time' = 0
    /\ last' = "draw"
    /\ UNCHANGED <<clicks, click_count, running, circle_lifetime, pending, now,
                   mainvars, event, lefts, right_seen, quit_seen,
                   polls_after_quit>>

\* clock.tick(60), then back to the loop test
ClockTick ==
    /\ pc = "tick"
    /\ pc' = "while"
    /\ last' = "tick"
    /\ UNCHANGED <<clicks, click_count, running, circle_lifetime, pending, now,
                   current_time, screen, mainvars, history>>

\* ------------------------------------------------------------- the clock
\* time.time() has moved forward since the last step.
TimeAdvance ==
    /\ pc \notin {"done", "raised"}
    /\ \E t \in 0..MaxTime : t > now /\ now' = t
    /\ UNCHANGED <<game, mainvars, last, history>>

\* The wall clock was set back.
TimeBack ==
    /\ pc \notin {"done", "raised"}
    /\ \E t \in 0..MaxTime : t < now /\ now' = t
    /\ UNCHANGED <<game, mainvars, last, history>>

\* ------------------------------------------------------------------ main()
\* The exceptions that may leave app().
Exceptions == {"UserNotificationException", "OtherException"}

\* Caught with a handler for every exception.
CaughtAny(e) == <<1>>

\* What main() does with exception e: the code it returns, <<>> if e propagates.
Caught(e) == IF e = "UserNotificationException" THEN <<1>> ELSE <<>>

\* run() has returned and app() returns: return 0
MainReturn ==
    /\ pc = "done"
    /\ exit_code = <<>>
    /\ exit_code' = <<0>>
    /\ last' = "return"
    /\ UNCHANGED <<game, now, raised, history>>

\* An exception leaves app(): raised by a library call of the loop
\* (pygame.event.get, the drawing calls, clock.tick) and not caught by run().
MainRaise ==
    /\ pc \in {"while", "draw", "tick"}
    /\ \E e \in Exceptions :
        /\ raised' = e
        /\ exit_code' = Caught(e)
    /\ pc' = "raised"
    /\ last' = "raise"
    /\ UNCHANGED <<clicks, click_count, running, circle_lifetime, pending, now,
                   current_time, screen, history>>

\* ------------------------------------------------------- specifications
\* One step of run().
Step ==
    \/ EventGet
    \/ LoopExit
    \/ HandleQuit
    \/ HandleLeftClick
    \/ HandleRightClick
    \/ HandleIgnored
    \/ UpdateCircles
    \/ Draw
    \/ ClockTick

Next ==
    \/ EventGet
    \/ LoopExit
    \/ HandleQuit
    \/ HandleLeftClick
    \/ HandleRightClick
    \/ HandleIgnored
    \/ UpdateCircles
    \/ Draw
    \/ ClockTick
    \/ TimeAdvance
    \/ TimeBack
    \/ MainReturn
    \/ MainRaise

Spec == Init /\ [][Next]_vars

\* The run in which no library call fails, with the loop always taking its
\* next step (run() is the only thread and each of its steps returns).
NextNoFailure ==
    \/ EventGet
    \/ LoopExit
    \/ HandleQuit
    \/ HandleLeftClick
    \/ HandleRightClick
    \/ HandleIgnored
    \/ UpdateCircles
    \/ Draw
    \/ ClockTick
    \/ TimeAdvance
    \/ TimeBack
    \/ MainReturn

FairSpec == Init /\ [][NextNoFailure]_vars /\ WF_vars(Step)

\* The runs in which the clock is never set back.
NextMonotone ==
    \/ EventGet
    \/ LoopExit
    \/ HandleQuit
    \/ HandleLeftClick
    \/ HandleRightClick
    \/ HandleIgnored
    \/ UpdateCircles
    \/ Draw
    \/ ClockTick
    \/ TimeAdvance
    \/ MainReturn
    \/ MainRaise

MonotoneSpec == Init /\ [][NextMonotone]_vars

\* ------------------------------------------------------------ the claims
\* C1: as long as no right-button press has been handled, click_count equals
\* the number of left-button presses handled so far, whatever the clock did
\* and however many expiration steps ran in between.
C1_CountEqualsLeftClicks == ~right_seen => click_count = lefts

\* Both left clicks were counted although every marker has expired since.
C1_Witness ==
    /\ ~right_seen
    /\ lefts = MaxClicks
    /\ click_count = MaxClicks
    /\ clicks = <<>>
    /\ last = "update"

\* C2: right after a button-3 press has been handled, markers is empty and
\* click_count is 0, whatever they were before.
C2_RightClickResets ==
    (last = "handle" /\ IsRightPress(event)) => (clicks = <<>> /\ click_count = 0)

\* A right click was handled after both left clicks, with circles on display.
C2_Witness ==
    /\ last = "handle"
    /\ IsRightPress(event)
    /\ lefts = MaxClicks
    /\ screen.circles # <<>>
    /\ clicks = <<>>
    /\ click_count = 0

\* C3: right after the expiration step ran at time current_time, every marker
\* left in markers has current_time - created_at < lifetime; none of age
\* lifetime or more is left.
C3_SurvivorsAreYoung ==
    last = "update" =>
        \A i \in 1..Len(clicks) : current_time - clicks[i][3] < circle_lifetime

\* An expiration step that removed one marker and kept another.
C3_Witness ==
    /\ last = "update"
    /\ ~right_seen
    /\ clicks # <<>>
    /\ Len(clicks) < click_count

\* C4 as stated: once a quit event has been handled no render pass occurs.
C4_NoDrawAfterQuit == draws_after_quit = 0

\* C4 as amended: once a quit event has been handled, running is false, the
\* loop finishes the iteration in progress with exactly one more render pass
\* and exits; no render pass occurs after the loop has exited.
C4_LastFrameThenExit ==
    /\ quit_seen => ~running
    /\ draws_after_quit <= 1
    /\ pc = "done" => (~running /\ draws_after_quit = 1)

\* run() has returned after a quit, having drawn its last frame.
C4_Witness ==
    /\ pc = "done"
    /\ quit_seen
    /\ ~running
    /\ draws_after_quit = 1

\* C5: running is true after construction and changes only from true to
\* false, and only in the step that handles a quit event.
C5_RunningOnlyStops ==
    /\ running = TRUE
    /\ [][running' # running =>
            /\ running
            /\ ~running'
            /\ last' = "handle"
            /\ IsQuitEvent(event')]_vars

\* Stopped was entered and a reset was handled afterwards without leaving it.
C5_Witness ==
    /\ ~running
    /\ quit_seen
    /\ last = "handle"
    /\ IsRightPress(event)

\* C6: in every step click_count stays the same, or grows by exactly 1 in the
\* step that handles a left press, or becomes 0 in the step that handles a
\* right press.
C6_CountSteps ==
    [][\/ click_count' = click_count
       \/ /\ click_count' = click_count + 1
          /\ last' = "handle"
          /\ IsLeftPress(event')
       \/ /\ click_count' = 0
          /\ last' = "handle"
          /\ IsRightPress(event')]_vars

\* A reset took the count from its maximum to 0 with a marker still live.
C6_Witness ==
    /\ last = "handle"
    /\ IsRightPress(event)
    /\ click_count = 0
    /\ lefts = MaxClicks
    /\ screen.text = <<"Clicks: ", MaxClicks>>

\* C7 as stated: at the start of a render pass no marker has age (measured
\* at that moment) lifetime or more.
C7_NoOldMarkerAtRender ==
    pc = "draw" =>
        \A i \in 1..Len(clicks) : now - clicks[i][3] < circle_lifetime

\* C7 as amended: at the start of a render pass the age of every marker is
\* less than lifetime plus the time elapsed since the expiration step read
\* the clock.
C7_NoOldMarkerAtClockRead ==
    pc = "draw" =>
        \A i \in 1..Len(clicks) :
            now - clicks[i][3] < circle_lifetime + (now - current_time)

\* A render pass about to draw a marker that reached its lifetime after the
\* expiration step read the clock.
C7_Witness ==
    /\ pc = "draw"
    /\ now > current_time
    /\ \E i \in 1..Len(clicks) : now - clicks[i][3] >= circle_lifetime

\* C8: for the markers of every reachable state and every time t, expiring
\* twice at t leaves what expiring once at t leaves; right after the
\* expiration step, a second one at the same clock value changes nothing.
C8_UpdateIdempotent ==
    /\ \A t \in 0..MaxTime :
          Retained(Retained(clicks, t, circle_lifetime), t, circle_lifetime)
              = Retained(clicks, t, circle_lifetime)
    /\ last = "update" => Retained(clicks, current_time, circle_lifetime) = clicks

\* Markers of which an expiration step would remove some and keep others.
C8_Witness ==
    /\ Len(clicks) = MaxClicks
    /\ \E t \in 0..MaxTime :
          /\ Retained(clicks, t, circle_lifetime) # clicks
          /\ Retained(clicks, t, circle_lifetime) # <<>>

\* C9: run() returns only after a quit event has been handled; once one has
\* been handled run() does return; and it polls no further batch of events
\* after the quit.
C9_ReturnsAfterQuit ==
    /\ [](pc = "done" => quit_seen)
    /\ quit_seen ~> (pc = "done")
    /\ [](polls_after_quit = 0)

\* run() has just returned: the quit was handled and no batch polled since.
C9_Witness ==
    /\ last = "exit"
    /\ pc = "done"
    /\ quit_seen
    /\ polls_after_quit = 0

\* C10: main() returns 1 exactly when a UserNotificationException left
\* app(), and 0 when app() returned; any other exception returns no code.
C10_ExitCode ==
    /\ exit_code = <<1>> <=> raised = "UserNotificationException"
    /\ exit_code = <<0>> <=> (raised = "none" /\ last = "return")
    /\ last = "return" => pc = "done"
    /\ raised = "OtherException" => exit_code = <<>>

\* A UserNotificationException ended a session in use: main() returned 1.
C10_Witness ==
    /\ raised = "UserNotificationException"
    /\ exit_code = <<1>>
    /\ click_count > 0

\* ------------------------------------------- the steps, as the claims see them
\* The step is the expiration step.
IsUpdateStep == pc = "for" /\ pc' = "draw"

\* The step is the render pass.
IsDrawStep == pc = "draw" /\ pc' = "tick"

\* The step is a pass of the for loop over one event (event' is that event).
IsHandleStep == pc = "for" /\ pending' = pending - 1

\* a is a subsequence of b.
RECURSIVE IsSubsequence(_, _)
IsSubsequence(a, b) ==
    IF a = <<>> THEN TRUE
    ELSE IF b = <<>> THEN FALSE
    ELSE IF Head(a) = Head(b) THEN IsSubsequence(Tail(a), Tail(b))
    ELSE IsSubsequence(a, Tail(b))

\* The number of entries of s equal to m.
Occurrences(m, s) == Cardinality({i \in 1..Len(s) : s[i] = m})

\* C11: the expiration step leaves a subsequence of the markers it found (no
\* reordering, no duplicate, no new entry), and the step handling a left
\* press appends that press's marker at the end of markers.
C11_OrderKept ==
    [][/\ IsUpdateStep => IsSubsequence(clicks', clicks)
       /\ (IsHandleStep /\ IsLeftPress(event')) =>
            clicks' = clicks \o <<(<<event'.pos[1], event'.pos[2], now>>)>>]_vars

\* Two markers at different places survived an expiration step in list
\* order although the first carries the later timestamp (the clock was set
\* back between the clicks).
C11_Witness ==
    /\ last = "update"
    /\ Len(clicks) = MaxClicks
    /\ clicks[1][3] > clicks[Len(clicks)][3]
    /\ <<clicks[1][1], clicks[1][2]>> # <<clicks[Len(clicks)][1], clicks[Len(clicks)][2]>>

\* C12: a marker leaves markers only in an expiration step run at a time now
\* with now - created_at >= lifetime, or in the step that handles a right
\* press; the expiration step removes no marker with now - created_at < lifetime.
C12_RemovedOnlyWhenExpiredOrReset ==
    [][\A i \in 1..Len(clicks) :
          /\ Occurrences(clicks[i], clicks') < Occurrences(clicks[i], clicks) =>
                \/ IsUpdateStep /\ now - clicks[i][3] >= circle_lifetime
                \/ IsHandleStep /\ IsRightPress(event')
          /\ (IsUpdateStep /\ now - clicks[i][3] < circle_lifetime) =>
                Occurrences(clicks[i], clicks') = Occurrences(clicks[i], clicks)]_vars

\* Under a positive lifetime every marker has expired, with no reset ever.
C12_Witness ==
    /\ last = "update"
    /\ circle_lifetime > 0
    /\ ~right_seen
    /\ click_count = MaxClicks
    /\ clicks = <<>>

\* C13: events are applied one at a time in the order of the batch: a right
\* press handled right after a left press of the same batch leaves markers
\* empty and click_count 0, a left press handled right after a right press
\* of the same batch leaves exactly its own marker and click_count 1.
C13_BatchOrderMatters ==
    [][(last = "handle" /\ IsHandleStep) =>
          /\ (IsLeftPress(event) /\ IsRightPress(event')) =>
                (clicks' = <<>> /\ click_count' = 0)
          /\ (IsRightPress(event) /\ IsLeftPress(event')) =>
                /\ clicks' = <<(<<event'.pos[1], event'.pos[2], now>>)>>
                /\ click_count' = 1]_vars

\* The first batch was a right press followed by a left press.
C13_Witness ==
    /\ last = "handle"
    /\ IsLeftPress(event)
    /\ right_seen
    /\ lefts = 1
    /\ pending = MaxBatch - 2
    /\ screen.text = <<>>
    /\ Len(clicks) = 1
    /\ click_count = 1

\* C14: the step that handles an event which is neither a quit, nor a button-1
\* press, nor a button-3 press leaves markers, click_count and running as
\* they were.
C14_OtherEventsIgnored ==
    [][(/\ IsHandleStep
        /\ ~IsQuitEvent(event')
        /\ ~IsLeftPress(event')
        /\ ~IsRightPress(event')) =>
            UNCHANGED <<clicks, click_count, running>>]_vars

\* The release of button 1 was handled with markers on the list.
C14_Witness ==
    /\ last = "handle"
    /\ event.type = "MOUSEBUTTONUP"
    /\ event.button = 1
    /\ running
    /\ click_count = MaxClicks
    /\ Len(clicks) = MaxClicks

\* C15: the expiration step changes neither click_count nor running (nor the
\* lifetime): the count keeps the clicks whose markers have expired.
C15_UpdateTouchesOnlyMarkers ==
    [][IsUpdateStep => UNCHANGED <<click_count, running, circle_lifetime>>]_vars

\* Two left clicks, the first marker expired, the second still there: the
\* count is still 2.
C15_Witness ==
    /\ last = "update"
    /\ ~right_seen
    /\ lefts = 2
    /\ click_count = 2
    /\ Len(clicks) = 1
    /\ current_time - clicks[1][3] = 0
    /\ circle_lifetime = 1

\* C16: the expiration step runs when the batch has been drained and the
\* render pass runs right after the expiration step; the frame presented
\* shows one circle per marker left by that step, in list order, and the
\* text "Clicks: n" with n the click_count the batch left.  When the batch
\* ends with a reset, no marker made before it in the batch reaches the frame.
C16_FrameShowsSurvivors ==
    /\ [](last = "draw" =>
            /\ screen.circles =
                  [i \in 1..Len(clicks) |-> <<clicks[i][1], clicks[i][2]>>]
            /\ screen.text = <<"Clicks: ", click_count>>)
    /\ [][IsUpdateStep => (pending = 0 /\ last \in {"get", "handle"})]_vars
    /\ [][(IsUpdateStep /\ last = "handle" /\ IsRightPress(event)) =>
            clicks' = <<>>]_vars
    /\ [][IsDrawStep => (last = "update" /\ UNCHANGED <<clicks, click_count>>)]_vars

\* A frame with two circles in list order after a reset earlier in the run,
\* the count showing 2.
C16_Witness ==
    /\ last = "draw"
    /\ right_seen
    /\ screen.circles = <<(<<20, 20>>), (<<10, 10>>)>>
    /\ screen.text = <<"Clicks: ", 2>>

\* C17: in every reachable state markers holds at most click_count entries.
C17_MarkersAtMostCount == Len(clicks) <= click_count

\* Every click is counted and every marker has expired.
C17_Witness ==
    /\ last = "draw"
    /\ click_count = MaxClicks
    /\ clicks = <<>>
    /\ screen.circles = <<>>

\* C18: when the clock is never set back, the timestamps of markers are
\* non-decreasing in list order in every reachable state, and the expiration
\* step removes a prefix of markers and keeps the rest.
C18_SortedAndPrefixRemoved ==
    /\ [](\A i \in 1..Len(clicks) : \A j \in i..Len(clicks) :
              clicks[i][3] <= clicks[j][3])
    /\ [][IsUpdateStep =>
            \E k \in 0..Len(clicks) :
                clicks' = SubSeq(clicks, k + 1, Len(clicks))]_vars

\* The older of two markers was removed, the newer is kept.
C18_Witness ==
    /\ last = "update"
    /\ ~right_seen
    /\ lefts = 2
    /\ Len(clicks) = 1
    /\ clicks[1][3] = current_time
    /\ circle_lifetime > 0

\* C19: with a lifetime of 0 or less and a clock that is never set back,
\* markers is empty when a render pass starts and the frame shows no circle,
\* while click_count still counts every left press (up to a reset).
C19_NonPositiveLifetime ==
    circle_lifetime <= 0 =>
        /\ pc = "draw" => clicks = <<>>
        /\ screen.circles = <<>>
        /\ ~right_seen => click_count = lefts

\* Lifetime 0: the frame shows the count of the clicks made and no circle.
C19_Witness ==
    /\ circle_lifetime = 0
    /\ last = "draw"
    /\ clicks = <<>>
    /\ screen.text = <<"Clicks: ", MaxClicks>>
    /\ screen.circles = <<>>

====
